---- MODULE Spec2Model ----
(***************************************************************************)
(* Model of src/src/serial_comm.c: the SLIP codec, the command builders,   *)
(* the response matcher and the session sequence counter of the serial     *)
(* flasher.  Every call of serial_write / serial_read is one step of the   *)
(* machine; a public loader_*_cmd operation is its call step followed by   *)
(* the transport steps it performs, up to the step that returns.           *)
(***************************************************************************)
EXTENDS Integers, Sequences, FiniteSets, TLC

VARIABLES
    s_sequence_number,  \* static uint32_t s_sequence_number
    pc,                 \* "idle" (no operation running) | "write" | "read"
    op,                 \* the operation running or last returned
    wq,                 \* buffers still to be passed to serial_write, in order
    tx,                 \* bytes passed to serial_write by this operation
    wire,               \* bytes sent by the device and not yet read
    rstate,             \* position in SLIP_receive_packet: "none" (not entered),
                        \* "delimiter", "body", "escape", "closing"
    i,                  \* loop index of SLIP_receive_packet
    buff,               \* buff of SLIP_receive_packet (check_response's response)
    buff_size,          \* buff_size of SLIP_receive_packet
    ch,                 \* last byte delivered by serial_read
    ret,                \* value returned by the operation
    reg,                \* the four bytes of the caller's *reg; NULL: no reg_value passed
    nwrites,            \* serial_write calls made by this operation
    nreads,             \* serial_read calls made by this operation
    frames,             \* records decoded by this operation, in order
    dataSinceBegin,     \* data commands issued since the last begin command
    checksums,          \* values returned by compute_checksum called on its own
    err,                \* value returned by the last serial_write / serial_read
                        \* of the operation; "none": no call made yet
    answer,             \* bytes the device sent in answer to this operation
    sync                \* the delimiter that started the frame being received:
                        \* "stale" (a byte left unread by an earlier operation),
                        \* "fresh" (a byte of the answer); "none": no frame yet

vars == <<s_sequence_number, pc, op, wq, tx, wire, rstate, i, buff, buff_size,
          ch, ret, reg, nwrites, nreads, frames, dataSinceBegin, checksums, err,
          answer, sync>>

---------------------------------------------------------------------------
(* Bounds of the model *)

\* data commands issued between two begin commands
MaxData == 3
\* well-formed frames the device sends in answer to one command
MaxFrames == 2
\* length of the byte sequences sent through the codec alone
MaxLen == 3
\* unread bytes of earlier answers with which an operation may start
MaxStale == 12

---------------------------------------------------------------------------
(* Bytes and integers *)

DELIMITER == 192

C0_REPLACEMENT == <<219, 220>>

BD_REPLACEMENT == <<219, 221>>

RECURSIVE XorBits(_, _, _)
XorBits(a, b, n) ==
    IF n = 0 THEN 0
    ELSE (((a % 2) + (b % 2)) % 2) + (2 * XorBits(a \div 2, b \div 2, n - 1))

\* uint8_t ^ uint8_t
Xor8(a, b) == XorBits(a, b, 8)

\* a 16-bit field as transmitted
LE16(v) == <<v % 256, (v \div 256) % 256>>

\* a 32-bit field as transmitted
LE32(v) == <<v % 256, (v \div 256) % 256, (v \div 65536) % 256,
             (v \div 16777216) % 256>>

\* the 16-bit field starting at byte k (1-based) of b
Field16(b, k) == b[k] + 256 * b[k + 1]

RECURSIVE Concat(_)
Concat(ss) == IF ss = <<>> THEN <<>> ELSE Head(ss) \o Concat(Tail(ss))

---------------------------------------------------------------------------
(* Protocol constants of serial_comm_prv.h / serial_comm.h *)

WRITE_DIRECTION == 0
READ_DIRECTION == 1

STATUS_SUCCESS == 0
STATUS_FAILURE == 1

FLASH_BEGIN == 2
FLASH_DATA == 3
FLASH_END == 4
MEM_BEGIN == 5
MEM_END == 6
MEM_DATA == 7
SYNC == 8
WRITE_REG == 9
READ_REG == 10
SPI_ATTACH == 13

INVALID_COMMAND == 5
COMMAND_FAILED == 6
INVALID_CRC == 7
FLASH_WRITE_ERR == 8
FLASH_READ_ERR == 9
READ_LENGTH_ERR == 10
DEFLATE_ERROR == 11
\* a code that log_loader_internal_error reports as "UNKNOWN ERROR"
UNKNOWN_ERROR == 255

ESP_LOADER_SUCCESS == "ESP_LOADER_SUCCESS"
ESP_LOADER_ERROR_FAIL == "ESP_LOADER_ERROR_FAIL"
ESP_LOADER_ERROR_TIMEOUT == "ESP_LOADER_ERROR_TIMEOUT"
ESP_LOADER_ERROR_INVALID_RESPONSE == "ESP_LOADER_ERROR_INVALID_RESPONSE"

\* the errors loader_port_serial_read / loader_port_serial_write can return
TransportErrors == {ESP_LOADER_ERROR_TIMEOUT, ESP_LOADER_ERROR_FAIL}

\* sizeof(command_common_t): direction, command, size, checksum
HEADER_SIZE == 8

\* sizeof(response_t): direction, command, value, status, error
RESPONSE_SIZE == 8

---------------------------------------------------------------------------
(* compute_checksum *)

RECURSIVE checksum_loop(_, _)
checksum_loop(data, checksum) ==
    IF data = <<>> THEN checksum
    ELSE checksum_loop(Tail(data), Xor8(checksum, Head(data)))

\* a checksum that shifts the sum left before each byte is taken in
RECURSIVE C11_Mutant_ShiftLoop(_, _)
C11_Mutant_ShiftLoop(data, checksum) ==
    IF data = <<>> THEN checksum
    ELSE C11_Mutant_ShiftLoop(Tail(data), Xor8((checksum * 2) % 256, Head(data)))

C11_Mutant_Shifted(data) == C11_Mutant_ShiftLoop(data, 239)

\* the checksum seeded with 0 instead of 0xEF
C10_Mutant_ZeroSeed(data) == checksum_loop(data, 0)

compute_checksum(data) == checksum_loop(data, 239)

---------------------------------------------------------------------------
(* Command and response records: the bytes of each struct as laid out in   *)
(* memory (no padding, least significant byte first).  A uint32_t field or *)
(* argument is given as its four bytes, so that the whole 32-bit range is  *)
(* available; LE32 gives the bytes of a small number.                      *)

command_common_t(common) ==
    <<common.direction, common.command>> \o LE16(common.size)
        \o LE32(common.checksum)

begin_command_t(common, erase_size, packet_count, packet_size, offset) ==
    command_common_t(common) \o erase_size \o packet_count \o packet_size \o offset

data_command_t(common, data_size, sequence_number, zero_0, zero_1) ==
    command_common_t(common) \o data_size \o sequence_number \o zero_0 \o zero_1

flash_end_command_t(common, stay_in_loader) ==
    command_common_t(common) \o stay_in_loader

sync_command_t(common, sync_sequence) ==
    command_common_t(common) \o sync_sequence

mem_end_command_t(common, stay_in_loader, entry_point_address) ==
    command_common_t(common) \o stay_in_loader \o entry_point_address

write_reg_command_t(common, address, value, mask, delay_us) ==
    command_common_t(common) \o address \o value \o mask \o delay_us

read_reg_command_t(common, address) ==
    command_common_t(common) \o address

spi_attach_command_t(common, configuration, zero) ==
    command_common_t(common) \o configuration \o zero

response_t(direction, command, value, status, error) ==
    <<direction, command>> \o value \o <<status, error>>

\* fields of a received response_t buffer
response_direction(r) == r[1]
response_command(r) == r[2]
response_value(r) == SubSeq(r, 3, 6)
response_status(r) == r[7]
response_error(r) == r[8]

\* fields of a command record
common_command(cmd_data) == cmd_data[2]
common_size(cmd_data) == Field16(cmd_data, 3)
common_checksum(cmd_data) == SubSeq(cmd_data, 5, 8)
data_sequence_number(cmd_data) == SubSeq(cmd_data, HEADER_SIZE + 5, HEADER_SIZE + 8)

BoolToInt(b) == IF b THEN 1 ELSE 0

---------------------------------------------------------------------------
(* The records built by the ten loader_*_cmd entry points *)

flash_begin_cmd(offset, erase_size, block_size, blocks_to_write) ==
    begin_command_t(
        [direction |-> 0, command |-> FLASH_BEGIN, size |-> 16, checksum |-> 0],
        erase_size, blocks_to_write, block_size, offset)

flash_data_cmd(data, seq) ==
    data_command_t(
        [direction |-> 0, command |-> FLASH_DATA, size |-> 16,
         checksum |-> compute_checksum(data)],
        LE32(Len(data)), LE32(seq), LE32(0), LE32(0))

flash_end_cmd(stay_in_loader) ==
    flash_end_command_t(
        [direction |-> 0, command |-> FLASH_END, size |-> 4, checksum |-> 0],
        LE32(BoolToInt(stay_in_loader)))

sync_cmd ==
    sync_command_t(
        [direction |-> 0, command |-> SYNC, size |-> 36, checksum |-> 0],
        <<7, 7, 18, 32>> \o [k \in 1..32 |-> 85])

mem_begin_cmd(offset, total_size, packet_size, packets_to_write) ==
    begin_command_t(
        [direction |-> 0, command |-> MEM_BEGIN, size |-> 16, checksum |-> 0],
        total_size, packets_to_write, packet_size, offset)

mem_data_cmd(data, seq) ==
    data_command_t(
        [direction |-> 0, command |-> MEM_DATA, size |-> 16,
         checksum |-> compute_checksum(data)],
        LE32(Len(data)), LE32(seq), LE32(0), LE32(0))

mem_end_cmd(stay_in_loader, address) ==
    mem_end_command_t(
        [direction |-> 0, command |-> MEM_END, size |-> 8, checksum |-> 0],
        LE32(BoolToInt(stay_in_loader)), address)

write_reg_cmd(address, value, mask, delay_us) ==
    write_reg_command_t(
        [direction |-> 0, command |-> WRITE_REG, size |-> 16, checksum |-> 0],
        address, value, mask, delay_us)

read_reg_cmd(address) ==
    read_reg_command_t(
        [direction |-> 0, command |-> READ_REG, size |-> 16, checksum |-> 0],
        address)

spi_attach_cmd(config) ==
    spi_attach_command_t(
        [direction |-> 0, command |-> SPI_ATTACH, size |-> 8, checksum |-> 0],
        config, LE32(0))

\* a data command that leaves the counter alone
C16_Mutant_NoAdvance(seq) == seq

\* s_sequence_number++ (uint32_t: it wraps after 2^32 data commands without
\* a begin command, which lies beyond MaxData and beyond the integers of
\* the model checker)
sequence_number_after_data(seq) == seq + 1

\* a begin command that leaves the counter alone
C2_Mutant_NoReset(seq) == seq

\* s_sequence_number = 0
sequence_number_after_begin(seq) == 0

---------------------------------------------------------------------------
(* SLIP_send: the buffers it passes to serial_write, in order *)

RECURSIVE SLIP_send_loop(_, _, _, _, _)
SLIP_send_loop(data, k, written, to_write, writes) ==
    IF k >= Len(data)
    THEN IF to_write > 0
         THEN Append(writes, SubSeq(data, written + 1, written + to_write))
         ELSE writes
    ELSE IF data[k + 1] # 192 /\ data[k + 1] # 219
    THEN SLIP_send_loop(data, k + 1, written, to_write + 1, writes)
    ELSE LET flushed == IF to_write > 0
                        THEN Append(writes,
                                    SubSeq(data, written + 1, written + to_write))
                        ELSE writes
             escaped == Append(flushed,
                               IF data[k + 1] = 192 THEN C0_REPLACEMENT
                               ELSE BD_REPLACEMENT)
         IN  SLIP_send_loop(data, k + 1, k + 1, 0, escaped)

\* SLIP_send without the write that follows its loop
C4_Mutant_Unflushed(data) ==
    LET writes == SLIP_send_loop(data, 0, 0, 0, <<>>)
    IN  IF data # <<>> /\ data[Len(data)] \notin {192, 219}
        THEN SubSeq(writes, 1, Len(writes) - 1)
        ELSE writes

SLIP_send(data) == SLIP_send_loop(data, 0, 0, 0, <<>>)

SLIP_send_delimiter == <<DELIMITER>>

\* check_response called before the trailing delimiter is sent
C17_Mutant_NoTrailer(cmd_data) ==
    <<SLIP_send_delimiter>> \o SLIP_send(cmd_data)

\* send_cmd: the serial_write calls made before check_response
send_cmd(cmd_data) ==
    <<SLIP_send_delimiter>> \o SLIP_send(cmd_data) \o <<SLIP_send_delimiter>>

\* header and payload each wrapped in delimiters of their own
C5_Mutant_TwoFrames(cmd_data, data) ==
    <<SLIP_send_delimiter>> \o SLIP_send(cmd_data) \o <<SLIP_send_delimiter>>
        \o <<SLIP_send_delimiter>> \o SLIP_send(data) \o <<SLIP_send_delimiter>>

\* send_cmd_with_data: the serial_write calls made before check_response
send_cmd_with_data(cmd_data, data) ==
    <<SLIP_send_delimiter>> \o SLIP_send(cmd_data) \o SLIP_send(data)
        \o <<SLIP_send_delimiter>>

---------------------------------------------------------------------------
(* SLIP_receive_packet and check_response: the decisions taken on a byte *)

\* the reg_value argument of the operations that deliver no value
NULL == <<>>

\* any other byte after 0xdb taken as it is
C7_Mutant_Raw(c) ==
    IF c = 220 THEN 192
    ELSE IF c = 221 THEN 189
    ELSE c

\* the byte stored for the byte c that follows 0xdb; -1: invalid response
SLIP_unescape(c) ==
    IF c = 220 THEN 192
    ELSE IF c = 221 THEN 189
    ELSE -1

\* no check of the byte read after buff_size decoded bytes
C8_Mutant_AnyByte(c) == TRUE

\* the check of the byte read after buff_size decoded bytes
closing_delimiter_ok(c) == c = DELIMITER

\* a loop condition that looks at the direction alone
C3_Mutant_DirectionOnly(r, cmd) == response_direction(r) = READ_DIRECTION

\* the negation of the loop condition of check_response
response_matches(r, cmd) ==
    ~((response_direction(r) # READ_DIRECTION) \/ (response_command(r) # cmd))

\* check_response storing the value before it tests the status
C18_Mutant_EarlyStore(r, reg_value) ==
    [ret |-> IF response_status(r) = STATUS_FAILURE
             THEN ESP_LOADER_ERROR_INVALID_RESPONSE ELSE ESP_LOADER_SUCCESS,
     reg |-> IF reg_value # NULL THEN response_value(r) ELSE reg_value]

\* check_response without the test of the status
C6_Mutant_StatusIgnored(r, reg_value) ==
    [ret |-> ESP_LOADER_SUCCESS,
     reg |-> IF reg_value # <<>> THEN response_value(r) ELSE reg_value]

\* what check_response returns for the matching record r, and what it
\* leaves in the caller's variable
response_result(r, reg_value) ==
    IF response_status(r) = STATUS_FAILURE
    THEN [ret |-> ESP_LOADER_ERROR_INVALID_RESPONSE, reg |-> reg_value]
    ELSE [ret |-> ESP_LOADER_SUCCESS,
          reg |-> IF reg_value # NULL THEN response_value(r) ELSE reg_value]

---------------------------------------------------------------------------
(* The device: what it puts on the wire in answer to a command *)

RECURSIVE SlipEscaped(_)
SlipEscaped(b) ==
    IF b = <<>> THEN <<>>
    ELSE (IF Head(b) = 192 THEN <<219, 220>>
          ELSE IF Head(b) = 219 THEN <<219, 221>>
          ELSE <<Head(b)>>) \o SlipEscaped(Tail(b))

SlipFrame(b) == <<192>> \o SlipEscaped(b) \o <<192>>

Commands == {FLASH_BEGIN, FLASH_DATA, FLASH_END, MEM_BEGIN, MEM_END, MEM_DATA,
             SYNC, WRITE_REG, READ_REG, SPI_ATTACH}

ErrorCodes == {INVALID_CRC, INVALID_COMMAND, COMMAND_FAILED, FLASH_WRITE_ERR,
               FLASH_READ_ERR, READ_LENGTH_ERR, DEFLATE_ERROR, UNKNOWN_ERROR}

OtherCommand(cmd) == IF cmd = SYNC THEN FLASH_BEGIN ELSE SYNC

\* value fields of the answers: a plain one and one holding 0xc0 and 0xdb
PlainValue == <<17, 0, 0, 0>>
SpecialValue == <<192, 0, 219, 0>>

\* the records the device answers with
MatchingRecords(cmd) ==
    {response_t(READ_DIRECTION, cmd, v, STATUS_SUCCESS, 0) :
        v \in {SpecialValue}}
    \cup {response_t(READ_DIRECTION, cmd, LE32(34), STATUS_FAILURE, INVALID_CRC)}

OtherRecords(cmd) ==
    {response_t(WRITE_DIRECTION, cmd, LE32(51), STATUS_SUCCESS, 0),
     response_t(READ_DIRECTION, OtherCommand(cmd), LE32(68), STATUS_FAILURE,
                INVALID_CRC)}

FailureRecords(cmd) ==
    {response_t(READ_DIRECTION, cmd, LE32(0), STATUS_FAILURE, e) : e \in ErrorCodes}

RECURSIVE SeqsUpTo(_, _)
SeqsUpTo(S, n) ==
    IF n = 0 THEN {<<>>}
    ELSE LET P == SeqsUpTo(S, n - 1)
         IN  P \cup {Append(q, x) : q \in {r \in P : Len(r) = n - 1}, x \in S}

\* up to MaxFrames well-formed frames
FrameStreams(cmd) ==
    {Concat(fs) :
        fs \in SeqsUpTo({SlipFrame(r) : r \in MatchingRecords(cmd) \cup OtherRecords(cmd)},
                        MaxFrames)}

\* the bytes a damaged link or device puts in place of a byte
DamageBytes == {0, 192, 219, 220, 221}

Replaced(b, k, x) == [b EXCEPT ![k] = x]
Inserted(b, k, x) == SubSeq(b, 1, k - 1) \o <<x>> \o SubSeq(b, k, Len(b))
Removed(b, k) == SubSeq(b, 1, k - 1) \o SubSeq(b, k + 1, Len(b))

\* one frame cut short, or with one byte replaced, inserted or lost
DamagedStreams(cmd) ==
    LET f == SlipFrame(response_t(READ_DIRECTION, cmd, PlainValue, STATUS_SUCCESS, 0))
    IN  {SubSeq(f, 1, k) : k \in 0..Len(f)}
        \cup {Replaced(f, k, x) : k \in 1..Len(f), x \in DamageBytes}
        \cup {Inserted(f, k, x) : k \in 1..(Len(f) + 1), x \in DamageBytes}
        \cup {Removed(f, k) : k \in 1..Len(f)}

\* the answers of a device on a sound link
SoundStreams ==
    [cmd \in Commands |->
        FrameStreams(cmd) \cup {SlipFrame(r) : r \in FailureRecords(cmd)}]

\* the answers arriving over a link that damages them
LinkStreams == [cmd \in Commands |-> DamagedStreams(cmd)]

\* the answers given to a command whose arguments are not all zero: the
\* model varies the arguments or the answer, not both
BasicStreams ==
    [cmd \in Commands |->
        {<<>>, SlipFrame(response_t(READ_DIRECTION, cmd, PlainValue, STATUS_SUCCESS, 0))}]

---------------------------------------------------------------------------
(* Inputs of the operations *)

\* 32-bit arguments: 0, 0x000000C0 and 0xC001DBDB
ArgVals == {<<0, 0, 0, 0>>, <<192, 0, 0, 0>>, <<219, 219, 1, 192>>}

\* argument lists of length n: the arguments alternate between two values
ArgVectors(n) ==
    {[k \in 1..n |-> IF k % 2 = 1 THEN a ELSE b] : a \in ArgVals, b \in ArgVals}

\* payloads of the data commands
Payloads == {<<>>, <<1, 2, 3, 4>>, <<192>>, <<219, 5, 192>>, <<47>>, <<52>>}

\* what the caller's variable holds before read-register
RegBefore == {<<5, 0, 0, 0>>}

NoOp == [name |-> "none", command |-> 0, cmd_data |-> <<>>, data |-> <<>>,
         with_data |-> FALSE, zero_args |-> TRUE]

---------------------------------------------------------------------------
(* Initial state *)

Init ==
    /\ s_sequence_number = 0
    /\ pc = "idle"
    /\ op = NoOp
    /\ wq = <<>>
    /\ tx = <<>>
    /\ wire = <<>>
    /\ rstate = "none"
    /\ i = 0
    /\ buff = [k \in 1..RESPONSE_SIZE |-> -1]
    /\ buff_size = RESPONSE_SIZE
    /\ ch = -1
    /\ ret = "none"
    /\ reg = NULL
    /\ nwrites = 0
    /\ nreads = 0
    /\ frames = <<>>
    /\ dataSinceBegin = 0
    /\ checksums = <<>>
    /\ err = "none"
    /\ answer = <<>>
    /\ sync = "none"

---------------------------------------------------------------------------
(* Entry of an operation: the record is built and sending starts *)

Enter(name, cmd_data, data, with_data, zero_args, reg_value) ==
    /\ pc = "idle"
    /\ pc' = "write"
    /\ op' = [name |-> name, command |-> common_command(cmd_data),
              cmd_data |-> cmd_data, data |-> data, with_data |-> with_data,
              zero_args |-> zero_args]
    /\ wq' = IF with_data THEN send_cmd_with_data(cmd_data, data)
             ELSE send_cmd(cmd_data)
    /\ tx' = <<>>
    /\ rstate' = "none"
    /\ i' = 0
    /\ buff' = [k \in 1..RESPONSE_SIZE |-> -1]
    /\ buff_size' = RESPONSE_SIZE
    /\ ch' = -1
    /\ ret' = "pending"
    /\ reg' = reg_value
    /\ nwrites' = 0
    /\ nreads' = 0
    /\ frames' = <<>>
    /\ err' = "none"
    /\ answer' = <<>>
    /\ sync' = "none"
    /\ UNCHANGED <<wire, checksums>>

AllZero(args) == \A k \in DOMAIN args : args[k] = <<0, 0, 0, 0>>

loader_flash_begin_cmd ==
    /\ \E a \in ArgVectors(4) :
          Enter("flash_begin", flash_begin_cmd(a[1], a[2], a[3], a[4]), <<>>, FALSE,
                AllZero(a), NULL)
    /\ s_sequence_number' = sequence_number_after_begin(s_sequence_number)
    /\ dataSinceBegin' = 0

loader_flash_data_cmd ==
    /\ dataSinceBegin < MaxData
    /\ \E data \in Payloads :
          Enter("flash_data", flash_data_cmd(data, s_sequence_number), data, TRUE,
                data = <<>>, NULL)
    /\ s_sequence_number' = sequence_number_after_data(s_sequence_number)
    /\ dataSinceBegin' = dataSinceBegin + 1

\* a flash-end that also resets the counter
C15_Mutant_EndResets ==
    /\ \E stay_in_loader \in BOOLEAN :
          Enter("flash_end", flash_end_cmd(stay_in_loader), <<>>, FALSE,
                ~stay_in_loader, NULL)
    /\ s_sequence_number' = 0
    /\ UNCHANGED dataSinceBegin

loader_flash_end_cmd ==
    /\ \E stay_in_loader \in BOOLEAN :
          Enter("flash_end", flash_end_cmd(stay_in_loader), <<>>, FALSE,
                ~stay_in_loader, NULL)
    /\ UNCHANGED <<s_sequence_number, dataSinceBegin>>

loader_sync_cmd ==
    /\ Enter("sync", sync_cmd, <<>>, FALSE, TRUE, NULL)
    /\ UNCHANGED <<s_sequence_number, dataSinceBegin>>

loader_mem_begin_cmd ==
    /\ \E a \in ArgVectors(4) :
          Enter("mem_begin", mem_begin_cmd(a[1], a[2], a[3], a[4]), <<>>, FALSE,
                AllZero(a), NULL)
    /\ s_sequence_number' = sequence_number_after_begin(s_sequence_number)
    /\ dataSinceBegin' = 0

loader_mem_data_cmd ==
    /\ dataSinceBegin < MaxData
    /\ \E data \in Payloads :
          Enter("mem_data", mem_data_cmd(data, s_sequence_number), data, TRUE,
                data = <<>>, NULL)
    /\ s_sequence_number' = sequence_number_after_data(s_sequence_number)
    /\ dataSinceBegin' = dataSinceBegin + 1

loader_mem_end_cmd ==
    /\ \E stay_in_loader \in BOOLEAN, address \in ArgVals :
          Enter("mem_end", mem_end_cmd(stay_in_loader, address), <<>>, FALSE,
                ~stay_in_loader /\ AllZero(<<address>>), NULL)
    /\ UNCHANGED <<s_sequence_number, dataSinceBegin>>

loader_write_reg_cmd ==
    /\ \E a \in ArgVectors(4) :
          Enter("write_reg", write_reg_cmd(a[1], a[2], a[3], a[4]), <<>>, FALSE,
                AllZero(a), NULL)
    /\ UNCHANGED <<s_sequence_number, dataSinceBegin>>

loader_read_reg_cmd ==
    /\ \E address \in ArgVals, before \in RegBefore :
          Enter("read_reg", read_reg_cmd(address), <<>>, FALSE, AllZero(<<address>>), before)
    /\ UNCHANGED <<s_sequence_number, dataSinceBegin>>

loader_spi_attach_cmd ==
    /\ \E config \in ArgVals :
          Enter("spi_attach", spi_attach_cmd(config), <<>>, FALSE,
                AllZero(<<config>>), NULL)
    /\ UNCHANGED <<s_sequence_number, dataSinceBegin>>

---------------------------------------------------------------------------
(* Transport steps *)

\* RETURN_ON_ERROR(x) with x evaluating to the error e: the value the
\* enclosing function returns at once
RETURN_ON_ERROR(e) == e

\* the operation returns r; rstate keeps the position it returned from
Return(r) ==
    /\ pc' = "idle"
    /\ ret' = r
    /\ UNCHANGED rstate

\* serial_write returns ESP_LOADER_SUCCESS; after the last one the device
\* answers and check_response starts
WriteOk(streams) ==
    /\ pc = "write"
    /\ tx' = tx \o Head(wq)
    /\ wq' = Tail(wq)
    /\ nwrites' = nwrites + 1
    /\ IF Len(wq) > 1
       THEN UNCHANGED <<pc, wire, rstate, answer>>
       ELSE /\ pc' = "read"
            /\ rstate' = "delimiter"
            /\ \E stream \in (IF op.zero_args THEN streams[op.command]
                              ELSE BasicStreams[op.command]) :
                  /\ wire' = wire \o stream
                  /\ answer' = stream
    /\ err' = ESP_LOADER_SUCCESS
    /\ UNCHANGED <<s_sequence_number, op, i, buff, buff_size, ch, ret, reg,
                   nreads, frames, dataSinceBegin, checksums, sync>>

\* serial_write returns an error
WriteFail ==
    /\ pc = "write"
    /\ tx' = tx \o Head(wq)
    /\ wq' = Tail(wq)
    /\ nwrites' = nwrites + 1
    /\ err' \in TransportErrors
    /\ Return(RETURN_ON_ERROR(err'))
    /\ UNCHANGED <<s_sequence_number, op, wire, i, buff, buff_size, ch, reg,
                   nreads, frames, dataSinceBegin, checksums, answer, sync>>

\* a failing serial_read that is called again instead of returned from
C12_Mutant_ReadRetry ==
    /\ pc = "read"
    /\ nreads' = nreads + 1
    /\ err' \in TransportErrors
    /\ UNCHANGED <<s_sequence_number, pc, op, wq, tx, wire, rstate, i, buff,
                   buff_size, ch, ret, reg, nwrites, frames, dataSinceBegin,
                   checksums, answer, sync>>

\* serial_read returns an error: the transport fails, or nothing arrives
\* before the deadline.  SLIP_receive_packet returns it ("return err" while
\* waiting for the delimiter, RETURN_ON_ERROR at the other reads) and
\* check_response returns what SLIP_receive_packet returned
ReadFail ==
    /\ pc = "read"
    /\ nreads' = nreads + 1
    /\ err' \in TransportErrors
    /\ Return(IF rstate = "delimiter" THEN err' ELSE RETURN_ON_ERROR(err'))
    /\ UNCHANGED <<s_sequence_number, op, wq, tx, wire, i, buff, buff_size, ch,
                   reg, nwrites, frames, dataSinceBegin, checksums, answer,
                   sync>>

\* serial_read delivers the next byte; with nothing pending it can only fail
Receive ==
    /\ pc = "read"
    /\ wire # <<>>
    /\ ch' = Head(wire)
    /\ wire' = Tail(wire)
    /\ nreads' = nreads + 1
    /\ err' = ESP_LOADER_SUCCESS
    /\ UNCHANGED <<s_sequence_number, op, wq, tx, buff_size, nwrites,
                   dataSinceBegin, checksums, answer>>

\* a wait for the delimiter that tests the byte read again and again
\* without reading the next one
C14_Mutant_Spin ==
    /\ rstate = "delimiter"
    /\ Receive
    /\ IF ch' # DELIMITER
       THEN /\ pc' = "spin"
            /\ UNCHANGED <<rstate, i>>
       ELSE /\ i' = 0
            /\ rstate' = IF 0 < buff_size THEN "body" ELSE "closing"
            /\ UNCHANGED pc
    /\ sync' = IF ch' # DELIMITER THEN sync
               ELSE IF Len(wire) > Len(answer) THEN "stale" ELSE "fresh"
    /\ UNCHANGED <<buff, ret, reg, frames>>

\* SLIP_receive_packet, "Wait for delimiter"
ReadDelimiter ==
    /\ rstate = "delimiter"
    /\ Receive
    /\ IF ch' # DELIMITER
       THEN UNCHANGED <<rstate, i>>
       ELSE /\ i' = 0
            /\ rstate' = IF 0 < buff_size THEN "body" ELSE "closing"
    /\ sync' = IF ch' # DELIMITER THEN sync
               ELSE IF Len(wire) > Len(answer) THEN "stale" ELSE "fresh"
    /\ UNCHANGED <<pc, buff, ret, reg, frames>>

\* SLIP_receive_packet, first read of the loop body
ReadBody ==
    /\ rstate = "body"
    /\ Receive
    /\ IF ch' = 219
       THEN /\ rstate' = "escape"
            /\ UNCHANGED <<i, buff>>
       ELSE /\ buff' = [buff EXCEPT ![i + 1] = ch']
            /\ i' = i + 1
            /\ rstate' = IF i + 1 < buff_size THEN "body" ELSE "closing"
    /\ UNCHANGED <<pc, ret, reg, frames, sync>>

\* SLIP_receive_packet, the read after 0xdb
ReadEscaped ==
    /\ rstate = "escape"
    /\ Receive
    /\ IF SLIP_unescape(ch') = -1
       THEN /\ Return(ESP_LOADER_ERROR_INVALID_RESPONSE)
            /\ UNCHANGED <<i, buff>>
       ELSE /\ buff' = [buff EXCEPT ![i + 1] = SLIP_unescape(ch')]
            /\ i' = i + 1
            /\ rstate' = IF i + 1 < buff_size THEN "body" ELSE "closing"
            /\ UNCHANGED <<pc, ret>>
    /\ UNCHANGED <<reg, frames, sync>>

\* SLIP_receive_packet, "Delimiter", and the rest of check_response
ReadClosing ==
    /\ rstate = "closing"
    /\ Receive
    /\ IF ~closing_delimiter_ok(ch')
       THEN /\ Return(ESP_LOADER_ERROR_INVALID_RESPONSE)
            /\ UNCHANGED <<reg, frames, i>>
       ELSE /\ frames' = Append(frames, buff)
            /\ IF ~response_matches(buff, op.command)
               THEN /\ rstate' = "delimiter"
                    /\ UNCHANGED <<pc, ret, reg, i>>
               ELSE /\ Return(response_result(buff, reg).ret)
                    /\ reg' = response_result(buff, reg).reg
                    /\ UNCHANGED i
    /\ UNCHANGED <<buff, sync>>

---------------------------------------------------------------------------

\* entry of one of the ten public operations
Call ==
    \/ loader_flash_begin_cmd
    \/ loader_flash_data_cmd
    \/ loader_flash_end_cmd
    \/ loader_sync_cmd
    \/ loader_mem_begin_cmd
    \/ loader_mem_data_cmd
    \/ loader_mem_end_cmd
    \/ loader_write_reg_cmd
    \/ loader_read_reg_cmd
    \/ loader_spi_attach_cmd

\* no unread byte is pending
Quiet == wire = <<>>

\* a session of operations with a device on a sound link; an operation
\* starts when no unread byte is pending
Next ==
    \/ (Quiet /\ Call)
    \/ WriteOk(SoundStreams)
    \/ WriteFail
    \/ ReadFail
    \/ ReadDelimiter
    \/ ReadBody
    \/ ReadEscaped
    \/ ReadClosing

Spec == Init /\ [][Next]_vars

\* a session of operations over a link that damages the answers
NextLink ==
    \/ (Quiet /\ Call)
    \/ WriteOk(LinkStreams)
    \/ WriteFail
    \/ ReadFail
    \/ ReadDelimiter
    \/ ReadBody
    \/ ReadEscaped
    \/ ReadClosing

SpecLink == Init /\ [][NextLink]_vars

\* the answers of a device that sends stray bytes and frames that do not
\* answer the command, and then the answer or nothing more
AwaitStreams ==
    [cmd \in Commands |->
        {Concat(junk) \o last :
            junk \in SeqsUpTo({<<0>>} \cup {SlipFrame(r) : r \in OtherRecords(cmd)},
                              MaxFrames),
            last \in {<<>>, SlipFrame(response_t(READ_DIRECTION, cmd, SpecialValue,
                                                 STATUS_SUCCESS, 0))}}]

\* the answers that make an operation fail in each way, and one that does
\* not: nothing, the answer, a FAILURE status, a frame cut after a bad
\* escape, a frame whose closing byte is not the delimiter; each of them
\* also after a frame of the write direction that carries a value
OutcomeStreams ==
    [cmd \in Commands |->
        LET ok == SlipFrame(response_t(READ_DIRECTION, cmd, PlainValue,
                                       STATUS_SUCCESS, 0))
            failure == SlipFrame(response_t(READ_DIRECTION, cmd, LE32(0),
                                            STATUS_FAILURE, INVALID_CRC))
            other == SlipFrame(response_t(WRITE_DIRECTION, cmd, LE32(51),
                                          STATUS_SUCCESS, 0))
            last == {<<>>, ok, failure, SubSeq(Replaced(ok, 4, 219), 1, 5),
                     Replaced(ok, Len(ok), 0)}
        IN  last \cup {other \o l : l \in last}]

\* a session in which operations fail in every way
NextOutcomes ==
    \/ (Quiet /\ Call)
    \/ WriteOk(OutcomeStreams)
    \/ WriteFail
    \/ ReadFail
    \/ ReadDelimiter
    \/ ReadBody
    \/ ReadEscaped
    \/ ReadClosing

SpecOutcomes == Init /\ [][NextOutcomes]_vars

\* the answers of a device that may answer twice, or late
RepeatStreams ==
    [cmd \in Commands |->
        LET ok == SlipFrame(response_t(READ_DIRECTION, cmd, SpecialValue,
                                       STATUS_SUCCESS, 0))
            failure == SlipFrame(response_t(READ_DIRECTION, cmd, LE32(0),
                                            STATUS_FAILURE, INVALID_CRC))
        IN  {<<>>, ok, failure, ok \o ok}]

\* an operation may start while bytes of earlier answers are unread, up to
\* MaxStale of them
Backlog == Len(wire) <= MaxStale

\* a flash download with a device that may answer twice: nothing is read
\* or dropped between two operations
NextStale ==
    \/ (Backlog /\ loader_flash_begin_cmd)
    \/ (Backlog /\ loader_flash_data_cmd)
    \/ (Backlog /\ loader_flash_end_cmd)
    \/ WriteOk(RepeatStreams)
    \/ WriteFail
    \/ ReadFail
    \/ ReadDelimiter
    \/ ReadBody
    \/ ReadEscaped
    \/ ReadClosing

SpecStale == Init /\ [][NextStale]_vars

\* the calls of serial_write and serial_read: each of them returns
AwaitTransport ==
    \/ WriteOk(AwaitStreams)
    \/ WriteFail
    \/ ReadFail
    \/ ReadDelimiter
    \/ ReadBody
    \/ ReadEscaped
    \/ ReadClosing

\* a session in which every transport call returns: a call that is due is
\* made and returns, and once the device has nothing more to send
\* serial_read can only report an error (the transport's deadline)
NextAwait ==
    \/ (Quiet /\ Call)
    \/ AwaitTransport

SpecAwait == Init /\ [][NextAwait]_vars /\ WF_vars(AwaitTransport)

---------------------------------------------------------------------------
(* The codec alone: frame-send of a byte sequence, whose written bytes are *)
(* then fed to SLIP_receive_packet with buff_size = its length             *)

CodecBytes == {0, 189, 192, 219, 220, 221}

CodecInputs == UNION {[1..n -> CodecBytes] : n \in 0..MaxLen}

InitCodec ==
    /\ s_sequence_number = 0
    /\ pc = "write"
    /\ \E b \in CodecInputs :
          /\ op = [name |-> "codec", command |-> 0, cmd_data |-> b, data |-> <<>>,
                   with_data |-> FALSE, zero_args |-> FALSE]
          /\ wq = send_cmd(b)
          /\ buff = [k \in 1..Len(b) |-> -1]
          /\ buff_size = Len(b)
    /\ tx = <<>>
    /\ wire = <<>>
    /\ rstate = "none"
    /\ i = 0
    /\ ch = -1
    /\ ret = "pending"
    /\ reg = NULL
    /\ nwrites = 0
    /\ nreads = 0
    /\ frames = <<>>
    /\ dataSinceBegin = 0
    /\ checksums = <<>>
    /\ err = "none"
    /\ answer = <<>>
    /\ sync = "none"

\* serial_write succeeds; the bytes written come back as the bytes to read
CodecWrite ==
    /\ pc = "write"
    /\ tx' = tx \o Head(wq)
    /\ wq' = Tail(wq)
    /\ nwrites' = nwrites + 1
    /\ IF Len(wq) > 1
       THEN UNCHANGED <<pc, wire, rstate>>
       ELSE /\ pc' = "read"
            /\ rstate' = "delimiter"
            /\ wire' = tx'
    /\ UNCHANGED answer
    /\ err' = ESP_LOADER_SUCCESS
    /\ UNCHANGED <<s_sequence_number, op, i, buff, buff_size, ch, ret, reg,
                   nreads, frames, dataSinceBegin, checksums, sync>>

\* SLIP_receive_packet, "Delimiter", returning to a caller that takes the
\* packet as it is
CodecReadClosing ==
    /\ rstate = "closing"
    /\ Receive
    /\ IF ~closing_delimiter_ok(ch')
       THEN /\ Return(ESP_LOADER_ERROR_INVALID_RESPONSE)
            /\ UNCHANGED frames
       ELSE /\ Return(ESP_LOADER_SUCCESS)
            /\ frames' = Append(frames, buff)
    /\ UNCHANGED <<buff, reg, i, sync>>

NextCodec ==
    \/ CodecWrite
    \/ ReadDelimiter
    \/ ReadBody
    \/ ReadEscaped
    \/ CodecReadClosing

SpecCodec == InitCodec /\ [][NextCodec]_vars

---------------------------------------------------------------------------
(* compute_checksum alone: called on A followed by B, then on B followed   *)
(* by A                                                                    *)

ChecksumBytes == {1, 2, 239}

ChecksumInputs == UNION {[1..n -> ChecksumBytes] : n \in 0..MaxLen}

InitChecksum ==
    /\ s_sequence_number = 0
    /\ pc = "idle"
    /\ \E A \in ChecksumInputs, B \in ChecksumInputs :
          op = [name |-> "checksum", command |-> 0, cmd_data |-> A, data |-> B,
                with_data |-> FALSE, zero_args |-> FALSE]
    /\ wq = <<>>
    /\ tx = <<>>
    /\ wire = <<>>
    /\ rstate = "none"
    /\ i = 0
    /\ buff = <<>>
    /\ buff_size = 0
    /\ ch = -1
    /\ ret = "none"
    /\ reg = NULL
    /\ nwrites = 0
    /\ nreads = 0
    /\ frames = <<>>
    /\ dataSinceBegin = 0
    /\ checksums = <<>>
    /\ err = "none"
    /\ answer = <<>>
    /\ sync = "none"

\* compute_checksum is called on the two inputs in one order, then the other
ChecksumCall ==
    /\ op.name = "checksum"
    /\ Len(checksums) < 2
    /\ checksums' = Append(checksums,
                           IF checksums = <<>>
                           THEN compute_checksum(op.cmd_data \o op.data)
                           ELSE compute_checksum(op.data \o op.cmd_data))
    /\ UNCHANGED <<s_sequence_number, pc, op, wq, tx, wire, rstate, i, buff,
                   buff_size, ch, ret, reg, nwrites, nreads, frames,
                   dataSinceBegin, err, answer, sync>>

NextChecksum == ChecksumCall

SpecChecksum == InitChecksum /\ [][NextChecksum]_vars

---------------------------------------------------------------------------
(* Notions the properties are stated in *)

IsPrefix(a, b) == Len(a) <= Len(b) /\ a = SubSeq(b, 1, Len(a))

HasSpecial(b) == \E k \in 1..Len(b) : b[k] \in {192, 219}

\* positions of b holding x
Positions(b, x) == {k \in 1..Len(b) : b[k] = x}

\* an operation has been entered
Entered == op.name \notin {"none", "codec"}

\* every serial_write call of the operation's send_cmd / send_cmd_with_data
\* has been made
SendComplete == nwrites > 0 /\ wq = <<>>

\* the operation returned
Returned == pc = "idle" /\ ret # "none"

\* a decoded record answers the command cmd
IsAnswer(r, cmd) == r[1] = READ_DIRECTION /\ r[2] = cmd

\* the outcome the protocol attaches to an answer
AnswerOutcome(r) ==
    IF r[7] = STATUS_FAILURE THEN ESP_LOADER_ERROR_INVALID_RESPONSE
    ELSE ESP_LOADER_SUCCESS

RECURSIVE XorAll(_)
XorAll(b) == IF b = <<>> THEN 0 ELSE Xor8(Head(b), XorAll(Tail(b)))

---------------------------------------------------------------------------
(* C1: SLIP round trip.  For every byte sequence B containing 0xC0 or 0xDB, *)
(* frame-receive with expected length Len(B), fed the bytes written by      *)
(* frame-send of B, returns success with a decoded buffer equal to B.       *)
C1_RoundTrip ==
    (op.name = "codec" /\ pc = "idle" /\ HasSpecial(op.cmd_data))
        => (ret = ESP_LOADER_SUCCESS /\ buff = op.cmd_data)

---------------------------------------------------------------------------
(* C2: the n-th data command (flash-data or mem-data) issued since the      *)
(* most recent begin command (or since the start) carries sequence_number   *)
(* n-1 in its header, whatever the outcomes of the operations before it.    *)
C2_SequenceNumbers ==
    (Entered /\ op.with_data)
        => data_sequence_number(op.cmd_data) = LE32(dataSinceBegin - 1)

\* the third data command after a begin command returned, carrying 2
C2_Witness ==
    /\ Returned
    /\ op.name = "mem_data"
    /\ dataSinceBegin = 3
    /\ data_sequence_number(op.cmd_data) = <<2, 0, 0, 0>>

---------------------------------------------------------------------------
(* C3: while the answer to command C is awaited, every decoded frame whose  *)
(* direction is not the response constant or whose command differs from C   *)
(* is discarded, whatever its status, and another frame is received; the    *)
(* operation returns at the first frame with response direction and command *)
(* C, with the outcome of that frame.                                       *)
C3_Discarded ==
    (Len(frames') = Len(frames) + 1
        /\ ~IsAnswer(frames'[Len(frames')], op.command))
    => (pc' = "read" /\ rstate' = "delimiter" /\ ret' = "pending" /\ reg' = reg)

C3_FirstAnswerDecides ==
    Entered =>
        /\ \A k \in 1..(Len(frames) - 1) : ~IsAnswer(frames[k], op.command)
        /\ (frames # <<>> /\ IsAnswer(frames[Len(frames)], op.command))
              => (Returned /\ ret = AnswerOutcome(frames[Len(frames)]))
        /\ ret = ESP_LOADER_SUCCESS
              => (frames # <<>> /\ IsAnswer(frames[Len(frames)], op.command))

C3_ResponseMatching == [][C3_Discarded]_vars /\ []C3_FirstAnswerDecides

\* awaiting FLASH_BEGIN: a SYNC-tagged frame, then the FLASH_BEGIN success
C3_Witness ==
    /\ Returned
    /\ op.command = FLASH_BEGIN
    /\ Len(frames) = 2
    /\ frames[1][2] = SYNC
    /\ frames[1][7] = STATUS_FAILURE
    /\ IsAnswer(frames[2], FLASH_BEGIN)
    /\ ret = ESP_LOADER_SUCCESS

---------------------------------------------------------------------------
(* C4: for a command without variable payload and record D, the bytes       *)
(* passed to serial_write, concatenated, are 0xC0, each byte of D in order  *)
(* (0xC0 as DB DC, 0xDB as DB DD, any other byte as itself), 0xC0, however  *)
(* they are batched; [0xC0] + D + [0xC0] when D holds neither 0xC0 nor      *)
(* 0xDB.  While the send is under way, or when a write error cut it short,  *)
(* the bytes passed so far are a prefix of that.                            *)
C4_EncodeMapping ==
    (Entered /\ ~op.with_data) =>
        /\ IsPrefix(tx, SlipFrame(op.cmd_data))
        /\ SendComplete => tx = SlipFrame(op.cmd_data)
        /\ (SendComplete /\ ~HasSpecial(op.cmd_data))
              => tx = <<192>> \o op.cmd_data \o <<192>>

\* a record holding 0xC0 and 0xDB has been sent in full
C4_Witness ==
    /\ Entered
    /\ ~op.with_data
    /\ pc = "read"
    /\ SendComplete
    /\ Positions(op.cmd_data, 192) # {}
    /\ Positions(op.cmd_data, 219) # {}
    /\ Len(tx) > Len(op.cmd_data) + 2

---------------------------------------------------------------------------
(* C5: for flash-data and mem-data with header H and payload P the bytes    *)
(* written are 0xC0, escaped(H), escaped(P), 0xC0; a raw 0xC0 is written    *)
(* exactly twice, as the first and as the last byte, never between header   *)
(* and payload.                                                             *)
C5_SingleFrame ==
    (Entered /\ op.with_data) =>
        LET whole == <<192>> \o SlipEscaped(op.cmd_data) \o SlipEscaped(op.data)
                         \o <<192>>
        IN  /\ IsPrefix(tx, whole)
            /\ Positions(tx, 192) \subseteq {1, Len(whole)}
            /\ SendComplete =>
                  /\ tx = whole
                  /\ Positions(tx, 192) = {1, Len(tx)}
                  /\ Len(tx) >= 2

\* a data command whose payload holds 0xC0 has been sent in full
C5_Witness ==
    /\ Entered
    /\ op.with_data
    /\ pc = "read"
    /\ SendComplete
    /\ Positions(op.data, 192) # {}

---------------------------------------------------------------------------
(* C6: when the first answer to the command has status FAILURE the          *)
(* operation returns ESP_LOADER_ERROR_INVALID_RESPONSE, for every           *)
(* error code: never success, never the device's code.                      *)
C6_FailureMapping ==
    (Entered /\ frames # <<>>
        /\ IsAnswer(frames[Len(frames)], op.command)
        /\ frames[Len(frames)][7] = STATUS_FAILURE)
    => (Returned /\ ret = ESP_LOADER_ERROR_INVALID_RESPONSE)

\* the answer reported INVALID_CRC
C6_Witness ==
    /\ Returned
    /\ frames # <<>>
    /\ IsAnswer(frames[Len(frames)], op.command)
    /\ frames[Len(frames)][7] = STATUS_FAILURE
    /\ frames[Len(frames)][8] = INVALID_CRC
    /\ ret = ESP_LOADER_ERROR_INVALID_RESPONSE

---------------------------------------------------------------------------
(* C7: when frame-receive has read 0xDB in the body and the byte read next  *)
(* is neither 0xDC nor 0xDD, it returns ESP_LOADER_ERROR_INVALID_RESPONSE,  *)
(* at every decoded position.                                               *)
\* the step is a serial_read that delivers the byte (wire' = Tail(wire)); a
\* serial_read that fails returns the transport's error instead
C7_Step ==
    (pc = "read" /\ rstate = "escape" /\ wire # <<>> /\ wire' = Tail(wire)
        /\ Head(wire) \notin {220, 221})
    => (pc' = "idle" /\ ret' = ESP_LOADER_ERROR_INVALID_RESPONSE
        /\ nreads' = nreads + 1 /\ reg' = reg)

C7_BadEscape == [][C7_Step]_vars

\* a bad escape at the last decoded position
C7_Witness ==
    /\ Returned
    /\ rstate = "escape"
    /\ i = RESPONSE_SIZE - 1
    /\ ch \notin {220, 221}
    /\ ret = ESP_LOADER_ERROR_INVALID_RESPONSE

---------------------------------------------------------------------------
(* C8: when the byte read after the expected number of decoded bytes is not *)
(* 0xC0, frame-receive returns ESP_LOADER_ERROR_INVALID_RESPONSE: it does   *)
(* not return success and reads no further.                                 *)
\* the step is a serial_read that delivers the byte (wire' = Tail(wire))
C8_Step ==
    (pc = "read" /\ rstate = "closing" /\ wire # <<>> /\ wire' = Tail(wire)
        /\ Head(wire) # 192)
    => (pc' = "idle" /\ ret' = ESP_LOADER_ERROR_INVALID_RESPONSE
        /\ nreads' = nreads + 1 /\ frames' = frames)

C8_MissingDelimiter == [][C8_Step]_vars

C8_Witness ==
    /\ Returned
    /\ rstate = "closing"
    /\ i = RESPONSE_SIZE
    /\ ch # 192
    /\ ret = ESP_LOADER_ERROR_INVALID_RESPONSE

---------------------------------------------------------------------------
(* C9: for each of the ten commands the size field of the header equals the *)
(* byte length of the command's fixed fields that follow the header.        *)
C9_PayloadSize ==
    Entered => common_size(op.cmd_data) = Len(op.cmd_data) - HEADER_SIZE

---------------------------------------------------------------------------
(* C10: for flash-data and mem-data with payload P the checksum field is    *)
(* 0xEF XORed with every byte of P (0xEF for the empty payload) and depends *)
(* on nothing else; for the other eight commands it is 0.                   *)
C10_Checksum ==
    Entered =>
        common_checksum(op.cmd_data) =
            IF op.with_data THEN LE32(Xor8(239, XorAll(op.data))) ELSE LE32(0)

\* P = [1,2,3,4]: 0xEF ^ 0x01 ^ 0x02 ^ 0x03 ^ 0x04 = 0xEB
C10_Witness ==
    /\ Entered
    /\ op.name = "flash_data"
    /\ op.data = <<1, 2, 3, 4>>
    /\ common_checksum(op.cmd_data) = <<235, 0, 0, 0>>
    /\ dataSinceBegin > 1

---------------------------------------------------------------------------
(* C11, as amended: the checksum does not depend on the order of the bytes: *)
(* for all byte sequences A and B, compute_checksum of A followed by B      *)
(* equals compute_checksum of B followed by A.                              *)
C11_OrderInsensitive ==
    (op.name = "checksum" /\ Len(checksums) = 2) => checksums[1] = checksums[2]

\* both orders computed for two different sequences with different bytes
C11_Witness ==
    /\ op.name = "checksum"
    /\ Len(checksums) = 2
    /\ op.cmd_data = <<1, 2>>
    /\ op.data = <<239>>
    /\ checksums[2] = 3

(* C11, as claimed: there are byte sequences A # B for which the checksum   *)
(* of A followed by B differs from the checksum of B followed by A.         *)
C11_OrderSensitive ==
    (op.name = "checksum" /\ Len(checksums) = 2)
        => \E A \in ChecksumInputs, B \in ChecksumInputs :
              /\ A # B
              /\ compute_checksum(A \o B) # compute_checksum(B \o A)

---------------------------------------------------------------------------
(* C12: in every operation, the step in which serial_write or serial_read   *)
(* returns an error ends the operation with that very error as its result,  *)
(* and so does, with ESP_LOADER_ERROR_INVALID_RESPONSE, the step in which    *)
(* SLIP_receive_packet is delivered a bad escape or a wrong closing byte:   *)
(* the operation has returned (pc = "idle"), so it makes no further         *)
(* transport call and does not repeat the failed one.                       *)

\* the step is a transport call of the running operation
TransportStep ==
    /\ pc # "idle"
    /\ (nwrites' = nwrites + 1 \/ nreads' = nreads + 1)

\* the step delivers a byte that breaks the framing
FramingErrorStep ==
    /\ pc = "read"
    /\ wire # <<>>
    /\ wire' = Tail(wire)
    /\ \/ rstate = "escape" /\ Head(wire) \notin {220, 221}
       \/ rstate = "closing" /\ Head(wire) # DELIMITER

C12_Step ==
    /\ (TransportStep /\ err' # ESP_LOADER_SUCCESS)
          => (pc' = "idle" /\ ret' = err' /\ err' \in TransportErrors)
    /\ FramingErrorStep
          => (pc' = "idle" /\ ret' = ESP_LOADER_ERROR_INVALID_RESPONSE)
    /\ (TransportStep /\ pc' = "idle" /\ ret' # ESP_LOADER_SUCCESS)
          => (nwrites' + nreads' = nwrites + nreads + 1 /\ op' = op)

C12_ShortCircuit == [][C12_Step]_vars

\* a read that timed out in the middle of a response record, after the
\* whole command was written
C12_Witness ==
    /\ Returned
    /\ Entered
    /\ SendComplete
    /\ rstate = "body"
    /\ i = 3
    /\ err = ESP_LOADER_ERROR_TIMEOUT
    /\ ret = ESP_LOADER_ERROR_TIMEOUT

---------------------------------------------------------------------------
(* The records the device sent, read off the bytes of its answer by the    *)
(* SLIP rules the sender uses: 0xdb 0xdc stands for 0xc0, 0xdb 0xdd for 0xdb *)

RECURSIVE SlipUnescaped(_)
SlipUnescaped(b) ==
    IF b = <<>> THEN <<>>
    ELSE IF Head(b) = 219 /\ Len(b) >= 2
         THEN <<(IF b[2] = 220 THEN 192 ELSE IF b[2] = 221 THEN 219 ELSE b[2])>>
                  \o SlipUnescaped(SubSeq(b, 3, Len(b)))
         ELSE <<Head(b)>> \o SlipUnescaped(Tail(b))

\* the records of a stream of well-formed frames, in order
RECURSIVE SentRecords(_)
SentRecords(stream) ==
    IF Len(stream) < 2 \/ stream[1] # 192 THEN <<>>
    ELSE LET closing == {k \in 2..Len(stream) : stream[k] = 192}
         IN  IF closing = {} THEN <<>>
             ELSE LET k == CHOOSE m \in closing : \A n \in closing : m <= n
                  IN  <<SlipUnescaped(SubSeq(stream, 2, k - 1))>>
                          \o SentRecords(SubSeq(stream, k + 1, Len(stream)))

\* the first record among rs that answers the command cmd; <<>>: none
FirstAnswer(rs, cmd) ==
    LET M == {k \in 1..Len(rs) : IsAnswer(rs[k], cmd)}
    IN  IF M = {} THEN <<>>
        ELSE rs[CHOOSE m \in M : \A n \in M : m <= n]

---------------------------------------------------------------------------
(* C13: when read-register returns success, the value delivered to the     *)
(* caller is the value field of the first frame sent by the device that has *)
(* the response direction and the command id READ_REG.                     *)
C13_RegisterValue ==
    (Returned /\ op.name = "read_reg" /\ ret = ESP_LOADER_SUCCESS)
        => LET r == FirstAnswer(SentRecords(answer), READ_REG)
           IN  r # <<>> /\ reg = SubSeq(r, 3, 6)

---------------------------------------------------------------------------
(* C14: an operation returns in the step that decodes a frame answering its *)
(* command or in which the transport reports an error, and, every transport *)
(* call returning and serial_read reporting an error once nothing more      *)
(* arrives, every operation eventually returns.  A stray byte before a      *)
(* delimiter and a frame that does not answer the command leave it reading, *)
(* however many were discarded before: it returns from reading only on an   *)
(* answer, a transport error or a framing error.                            *)

\* the step delivers the byte at the head of the wire
Delivered == pc = "read" /\ wire # <<>> /\ wire' = Tail(wire)

\* the step discards a stray byte or a frame that does not answer
DiscardStep ==
    /\ Delivered
    /\ \/ rstate = "delimiter" /\ Head(wire) # DELIMITER
       \/ rstate = "closing" /\ Head(wire) = DELIMITER
              /\ ~IsAnswer(buff, op.command)

\* the step completes a frame that answers the command
AnswerStep ==
    /\ Delivered
    /\ rstate = "closing"
    /\ Head(wire) = DELIMITER
    /\ IsAnswer(buff, op.command)

C14_Step ==
    /\ DiscardStep => (pc' = "read" /\ rstate' = "delimiter" /\ ret' = ret)
    /\ AnswerStep => pc' = "idle"
    /\ (TransportStep /\ err' # ESP_LOADER_SUCCESS) => pc' = "idle"
    /\ (pc = "read" /\ pc' # "read")
          => (AnswerStep \/ FramingErrorStep \/ err' # ESP_LOADER_SUCCESS)

C14_Returns == (pc # "idle") ~> (pc = "idle")

C14_AwaitTermination == C14_Returns /\ [][C14_Step]_vars

\* the deadline ends an operation that discarded a stray byte and two
\* frames and got no answer
C14_Witness ==
    /\ Returned
    /\ Entered
    /\ Len(frames) >= 2
    /\ \A k \in 1..Len(frames) : ~IsAnswer(frames[k], op.command)
    /\ wire = <<>>
    /\ rstate = "delimiter"
    /\ ret = ESP_LOADER_ERROR_TIMEOUT

---------------------------------------------------------------------------
(* C15: sync, flash-end, mem-end, read-register, write-register and         *)
(* spi-attach leave s_sequence_number unchanged from their entry to their   *)
(* return, whatever they return; the only steps that change it are the      *)
(* entry of a begin command, which sets it to 0, and the entry of a data    *)
(* command, which adds one.                                                 *)

BeginOps == {"flash_begin", "mem_begin"}

DataOps == {"flash_data", "mem_data"}

OtherOps == {"sync", "flash_end", "mem_end", "read_reg", "write_reg", "spi_attach"}

\* the step is the entry of an operation
EntryStep == pc = "idle" /\ pc' = "write"

C15_Step ==
    /\ (EntryStep /\ op'.name \in OtherOps)
          => s_sequence_number' = s_sequence_number
    /\ ~EntryStep => s_sequence_number' = s_sequence_number
    /\ (s_sequence_number' # s_sequence_number)
          => \/ EntryStep /\ op'.name \in BeginOps /\ s_sequence_number' = 0
             \/ EntryStep /\ op'.name \in DataOps
                   /\ s_sequence_number' = s_sequence_number + 1

C15_CounterFrame == [][C15_Step]_vars

\* a read-register that failed on the device's status, the counter still 2
C15_Witness ==
    /\ Returned
    /\ op.name = "read_reg"
    /\ ret = ESP_LOADER_ERROR_INVALID_RESPONSE
    /\ frames # <<>>
    /\ s_sequence_number = 2

---------------------------------------------------------------------------
(* C16: from the entry of a data command on, through its transport calls    *)
(* and after its return with any result, s_sequence_number is one more than *)
(* the sequence number the command carries; from the entry of a begin       *)
(* command on it is 0, before anything is written.  A data command entered  *)
(* next carries the counter as the previous operation left it, so after a   *)
(* failed data command it carries the next number.                          *)
C16_Advanced ==
    /\ (Entered /\ op.name \in DataOps)
          => data_sequence_number(op.cmd_data) = LE32(s_sequence_number - 1)
    /\ (Entered /\ op.name \in BeginOps) => s_sequence_number = 0

C16_Step ==
    (EntryStep /\ op'.name \in DataOps)
        => /\ data_sequence_number(op'.cmd_data) = LE32(s_sequence_number)
           /\ s_sequence_number' = s_sequence_number + 1
           /\ nwrites' = 0
           /\ (op.name \in DataOps /\ ret # ESP_LOADER_SUCCESS)
                 => data_sequence_number(op'.cmd_data)
                        # data_sequence_number(op.cmd_data)

C16_OutcomeIndependent == []C16_Advanced /\ [][C16_Step]_vars

\* the second data command after a begin failed on a bad escape
C16_Witness ==
    /\ Returned
    /\ op.name \in DataOps
    /\ rstate = "escape"
    /\ ret = ESP_LOADER_ERROR_INVALID_RESPONSE
    /\ data_sequence_number(op.cmd_data) = LE32(1)
    /\ s_sequence_number = 2

---------------------------------------------------------------------------
(* C17: within an operation the bytes are written in the order leading      *)
(* delimiter, escaped body, trailing delimiter, and all of them before the  *)
(* first serial_read; no serial_read is made when a serial_write failed,    *)
(* and no serial_write is made after the first serial_read.                 *)

\* the whole frame of the operation
WholeFrame == <<192>> \o SlipEscaped(op.cmd_data \o op.data) \o <<192>>

C17_Order ==
    Entered =>
        /\ IsPrefix(tx, WholeFrame)
        /\ nreads > 0 => (wq = <<>> /\ tx = WholeFrame)
        /\ pc = "read" => (wq = <<>> /\ tx = WholeFrame)

C17_Step ==
    /\ (pc # "idle" /\ nwrites' = nwrites + 1)
          => /\ nreads = 0
             /\ nreads' = 0
             /\ err' # ESP_LOADER_SUCCESS => pc' = "idle"
    /\ (pc # "idle" /\ nreads' = nreads + 1)
          => (nwrites' = nwrites /\ tx' = tx)
    /\ (pc = "write" /\ pc' = "idle") => nreads' = 0

C17_SendBeforeReceive == []C17_Order /\ [][C17_Step]_vars

\* the first read, made after the writes of a command whose arguments hold
\* 0xC0 or 0xDB
C17_Witness ==
    /\ Entered
    /\ pc = "read"
    /\ nreads = 1
    /\ nwrites > 3
    /\ HasSpecial(op.cmd_data)
    /\ tx = WholeFrame

---------------------------------------------------------------------------
(* C18: every step of read-register other than the one that returns success *)
(* leaves the caller's variable as it was: it is unchanged when the         *)
(* operation returns a transport error, a framing error or the error of a   *)
(* FAILURE status, also after frames carrying a value were discarded.       *)
C18_Step ==
    (op.name = "read_reg" /\ pc # "idle"
        /\ ~(pc' = "idle" /\ ret' = ESP_LOADER_SUCCESS))
    => reg' = reg

C18_ResultUntouched == [][C18_Step]_vars

\* a FAILURE status after a discarded frame that carried the value 51
C18_Witness ==
    /\ Returned
    /\ op.name = "read_reg"
    /\ ret = ESP_LOADER_ERROR_INVALID_RESPONSE
    /\ Len(frames) = 2
    /\ response_value(frames[1]) = LE32(51)
    /\ response_status(frames[2]) = STATUS_FAILURE
    /\ reg \in RegBefore

---------------------------------------------------------------------------
(* C19: over any sequence of operations, the frame that an operation takes  *)
(* as the answer to its command was sent by the device in answer to that    *)
(* operation: the frame does not start with a byte that an earlier          *)
(* operation left unread.                                                   *)

\* the operation returned on a frame taken as the answer to its command
Accepted ==
    /\ Returned
    /\ Entered
    /\ rstate = "closing"
    /\ ch = DELIMITER
    /\ err = ESP_LOADER_SUCCESS

C19_Freshness == Accepted => sync = "fresh"

---------------------------------------------------------------------------
(* C20: SLIP_receive_packet returns success only if the bytes it consumed   *)
(* between the delimiter it synchronized on and the closing delimiter hold  *)
(* no raw 0xC0.  The successful calls of an operation then consumed two raw *)
(* 0xC0 each, their two delimiters, and no other: the bytes before a        *)
(* synchronizing delimiter are not 0xC0.                                    *)

\* the bytes of the answer consumed so far (no byte was pending at entry)
Consumed == SubSeq(answer, 1, Len(answer) - Len(wire))

C20_Step ==
    (pc = "read" /\ frames' # frames)
        => Cardinality(Positions(Consumed', DELIMITER)) = 2 * Len(frames')

C20_FrameAlignment == [][C20_Step]_vars

====
